---- MODULE Spec2Model ----
(***************************************************************************)
(* A model of .github/scripts/remind-backport.js: the paginating API       *)
(* client, the per-candidate reminder policy and the run loop.             *)
(*                                                                         *)
(* Time is in milliseconds, as in the script.  Text (logins, comment       *)
(* bodies) is a sequence of fragments; String.includes is fragment         *)
(* containment.  An optional value (a ?. chain that may be undefined) is a *)
(* sequence of length 0 or 1.                                              *)
(***************************************************************************)
EXTENDS Integers, Sequences, FiniteSets, TLC

\* ------------------------------------------------------------ bounds
\* Runs of the script against the same repository.
MaxRuns == 2
\* The clock is followed up to MaxRunMs past the start of the run; the
\* value now + MaxRunMs stands for that instant or any later one.
MaxRunMs == 400
\* The same, past the call of a paginate that is followed on its own.
MaxPaginateMs == 2200
\* Pages of the list endpoint that may hold items (later pages are empty).
MaxPages == 3
\* Open issues carrying the label.
MaxIssues == 2
\* Events of an issue, and comments on it that the script did not post.
MaxEvents == 2
MaxComments == 2

\* ------------------------------------------------------------ configuration
LABEL_NAME == "backport-pending"
TARGET_BRANCH == "master"
AFTER_DAYS == 7
EVERY_DAYS == 7
MARKER == "[backport-pending-reminder]"
\* per_page of every list request, and the length of a full page
PER_PAGE == 100
\* the length of one "day" of daysBetween
DAY_MS == 1000 * 60 * 5
\* the margin added to a rate-limit wait, and the pause after a post
RATE_LIMIT_MARGIN_MS == 1000
POST_DELAY_MS == 200

\* ------------------------------------------------------------ helpers
Max(a, b) == IF a >= b THEN a ELSE b

Min(a, b) == IF a <= b THEN a ELSE b

\* String.prototype.includes on text held as fragments
Includes(text, needle) == \E i \in 1..Len(text) : text[i] = needle

RECURSIVE Flatten(_)
\* the concatenation of a sequence of sequences
Flatten(ss) == IF ss = <<>> THEN <<>> ELSE Head(ss) \o Flatten(Tail(ss))

\* Math.floor((a - b) / (1000 * 60 * 5)); \div rounds down, as Math.floor does
daysBetween(a, b) == (a - b) \div DAY_MS

\* x put into t after its first k elements
InsertAt(t, x, k) == SubSeq(t, 1, k) \o <<x>> \o SubSeq(t, k + 1, Len(t))

\* ------------------------------------------------------------ state
VARIABLES
  clock,        \* the wall clock, ms
  runs,         \* runs of the script started so far
  pc,           \* where run() is: idle, listIssues, loop, getPull, listEvents,
                \* listComments, createComment, pause, threw, exited, harness
  exitCode,     \* the process's exit status, <<>> while it runs
  now,          \* run(): const now
  todo,         \* run(): the issues the for-of loop has not reached yet
  cur,          \* run(): issue, <<>> outside the loop body
  pr,           \* run(): pr, <<>> before getPull answered
  ageDays,      \* run(): ageDays, <<>> before it is computed
  mentions,     \* run(): the mentions array before join(" ")
  body,         \* run(): body, the text handed to createComment
  pgState,      \* paginate(): idle, fetch, sleep, returned, threw
  pgPage,       \* paginate(): page
  pgResults,    \* paginate(): results
  pgWait,       \* paginate(): waitMs of the pending sleep
  feed,         \* the server: the pages of the list being paginated
  repo,         \* the server: the repository's issues, pulls, events, comments
  posted,       \* the server: per issue number, the comments createComment made
  lastRes,      \* the last response received: status and x-ratelimit-remaining
  lastReset,    \* x-ratelimit-reset (s) of the last rate-limit response
  okPages,      \* history: page numbers answered with success, this paginate call
  limited,      \* history: a rate-limit response was received, this paginate call
  decision,     \* history: how the loop body left the current candidate
  latestLabel,  \* history: <<T>>, the latest matching labeled event's time
  latestReminder \* history: <<T2>>, the latest automated marker comment's time

vars == <<clock, runs, pc, exitCode, now, todo, cur, pr, ageDays, mentions,
          body, pgState, pgPage, pgResults, pgWait, feed, repo, posted, lastRes,
          lastReset, okPages, limited, decision, latestLabel, latestReminder>>

runVars == <<runs, pc, exitCode, now, todo, cur, pr, ageDays, mentions, body,
             repo, posted, decision, latestLabel, latestReminder>>

\* ------------------------------------------------------------ the API
\* Response.ok
ResOk(res) == res.status \in 200..299

\* mutant: any 403 is taken for the rate-limit signal
IsRateLimitAny403(res) == res.status = 403

\* mutant: any response that is not a success is taken for it
IsRateLimitAnyFailure(res) == ~ResOk(res)

\* the rate-limit signal paginate looks for
IsRateLimit(res) == res.status = 403 /\ res.remaining = "0"

\* a successful response carrying data
OkResponse(data) ==
  [status |-> 200, remaining |-> "4999", reset |-> 0, data |-> data]

\* x-ratelimit-reset of a rate-limit response: absent (read as 0) or the
\* start of the next second
ResetChoices == {0, (clock \div 1000) + 1}

\* 403 with no quota left
RateLimitResponses ==
  {[status |-> 403, remaining |-> "0", reset |-> r, data |-> <<>>] :
     r \in ResetChoices}

\* other non-success answers: forbidden with quota left, a server error
FailureResponses ==
  {[status |-> 403, remaining |-> "4999", reset |-> 0, data |-> <<>>],
   [status |-> 500, remaining |-> "4999", reset |-> 0, data |-> <<>>]}

NoResponse == [status |-> 0, remaining |-> ""]

Seen(res) == [status |-> res.status, remaining |-> res.remaining]

\* the time after ms more milliseconds, followed up to now + MaxRunMs
Horizon == IF pc = "harness" THEN MaxPaginateMs ELSE now + MaxRunMs

After(ms) == Min(clock + ms, Horizon)

\* ------------------------------------------------------------ paginate
\* the JSON body of a list page: an array of items, or something else
ArrayPage(items) == [array |-> TRUE, items |-> items]

NotArrayPage == [array |-> FALSE, items |-> <<>>]

\* what the server answers for page p of the list
ServerPage(p) == IF p <= Len(feed) THEN feed[p] ELSE ArrayPage(<<>>)

\* a list as the server pages it, PER_PAGE items a page
PagesOf(list) ==
  [p \in 1..((Len(list) + PER_PAGE - 1) \div PER_PAGE) |->
     ArrayPage(SubSeq(list, (p - 1) * PER_PAGE + 1, Min(p * PER_PAGE, Len(list))))]

\* paginate(path, params) is called for a list the server holds as pages
PaginateCall(pages) ==
  /\ feed' = pages
  /\ pgState' = "fetch"
  /\ pgPage' = 1
  /\ pgResults' = <<>>
  /\ pgWait' = 0
  /\ okPages' = <<>>
  /\ limited' = FALSE

\* mutant: the margin is left out
WaitMsNoMargin(res) == Max(0, res.reset * 1000 - clock)

\* Math.max(0, reset - Date.now()) + 1000
WaitMs(res) == Max(0, res.reset * 1000 - clock) + RATE_LIMIT_MARGIN_MS

\* mutant: a page of exactly PER_PAGE items ends the loop
MorePagesOffByOne(data) == data.array /\ Len(data.items) > PER_PAGE

\* whether the loop goes on to the next page after a successful page
MorePages(data) == data.array /\ Len(data.items) >= PER_PAGE

\* one iteration of paginate's loop, from the request to the next await
PaginateOn(res) ==
  /\ lastRes' = Seen(res)
  /\ IF IsRateLimit(res)
     THEN /\ pgWait' = WaitMs(res)
          /\ lastReset' = res.reset
          /\ pgState' = "sleep"
          /\ limited' = TRUE
          /\ UNCHANGED <<pgPage, pgResults, okPages>>
     ELSE IF ~ResOk(res)
     THEN /\ pgState' = "threw"
          /\ pgResults' = <<>>
          /\ UNCHANGED <<pgPage, pgWait, lastReset, okPages, limited>>
     ELSE /\ okPages' = Append(okPages, pgPage)
          /\ UNCHANGED <<pgWait, lastReset, limited>>
          /\ IF ~res.data.array \/ Len(res.data.items) = 0
             THEN /\ pgState' = "returned"
                  /\ UNCHANGED <<pgPage, pgResults>>
             ELSE /\ pgResults' = pgResults \o res.data.items
                  /\ IF MorePages(res.data)
                     THEN pgPage' = pgPage + 1 /\ pgState' = "fetch"
                     ELSE pgState' = "returned" /\ UNCHANGED pgPage

PaginateFetch ==
  /\ pgState = "fetch"
  /\ \E res \in {OkResponse(ServerPage(pgPage))} \cup RateLimitResponses
                  \cup FailureResponses :
       PaginateOn(res)
  /\ UNCHANGED <<clock, feed>>
  /\ UNCHANGED runVars

\* await sleep(waitMs); continue
PaginateWake ==
  /\ pgState = "sleep"
  /\ clock' = After(pgWait)
  /\ pgState' = "fetch"
  /\ UNCHANGED <<pgPage, pgResults, pgWait, feed, lastRes, lastReset, okPages,
                 limited>>
  /\ UNCHANGED runVars

\* ------------------------------------------------------------ paginate alone
\* the items of page p when it holds n of them
PageItems(p, n) == [k \in 1..n |-> p * 1000 + k]

\* the pages a list endpoint may answer with
PageChoices(p) ==
  {ArrayPage(PageItems(p, n)) : n \in {0, 1, PER_PAGE \div 2, PER_PAGE}}
    \cup {NotArrayPage}

\* every list of at most MaxPages pages
Feeds ==
  UNION {{f \in [1..n -> UNION {PageChoices(p) : p \in 1..MaxPages}] :
            \A p \in 1..n : f[p] \in PageChoices(p)} : n \in 0..MaxPages}

\* the issue numbers of the repository
IssueNumbers == 1..MaxIssues

InitCommon ==
  /\ clock = 0
  /\ runs = 0
  /\ exitCode = <<>>
  /\ now = 0
  /\ todo = <<>>
  /\ cur = <<>>
  /\ pr = <<>>
  /\ ageDays = <<>>
  /\ mentions = <<>>
  /\ body = <<>>
  /\ pgPage = 1
  /\ pgResults = <<>>
  /\ pgWait = 0
  /\ posted = [n \in IssueNumbers |-> <<>>]
  /\ lastRes = NoResponse
  /\ lastReset = 0
  /\ okPages = <<>>
  /\ limited = FALSE
  /\ decision = ""
  /\ latestLabel = <<>>
  /\ latestReminder = <<>>

\* paginate called on its own, for any list the server may hold
PaginateInit ==
  /\ InitCommon
  /\ pc = "harness"
  /\ pgState = "fetch"
  /\ feed \in Feeds
  /\ repo = <<>>

PaginateNext == PaginateFetch \/ PaginateWake

PaginateSpec == PaginateInit /\ [][PaginateNext]_vars

\* ------------------------------------------------------------ the repository
alice == <<"alice">>

bob == <<"bob">>

\* issue.user: absent, or a user with a login
IssueUsers == {<<>>, <<[login |-> alice]>>}

\* every sequence of at most n elements of S
SeqsUpTo(S, n) == UNION {[1..k -> S] : k \in 0..n}

\* GET /pulls/{number}
PullOf(ref, reviewers, teams) ==
  [base |-> [ref |-> ref, repo |-> [owner |-> [login |-> <<"acme">>]]],
   requested_reviewers |-> reviewers, requested_teams |-> teams]

\* a pull request into the target branch with no reviewer requested
PlainPull == PullOf(TARGET_BRANCH, <<>>, <<>>)

\* another base; a reviewer and a team; the same reviewer twice; the author
Pulls ==
  {PlainPull,
   PullOf("develop", <<>>, <<>>),
   PullOf(TARGET_BRANCH, <<[login |-> bob]>>, <<[slug |-> "core"]>>),
   PullOf(TARGET_BRANCH, <<[login |-> bob], [login |-> bob]>>, <<>>),
   PullOf(TARGET_BRANCH, <<[login |-> alice]>>, <<>>)}

\* the label applied at t
Labeled(t) ==
  [event |-> "labeled", label |-> <<[name |-> LABEL_NAME]>>, created_at |-> t]

\* against a run at DAY_MS: labeled AFTER_DAYS days and 1 ms before,
\* AFTER_DAYS days before, 1 ms less than AFTER_DAYS days before
LabeledOld == DAY_MS - AFTER_DAYS * DAY_MS - 1

LabeledDue == DAY_MS - AFTER_DAYS * DAY_MS

LabeledYoung == DAY_MS - AFTER_DAYS * DAY_MS + 1

\* issue events: the label applied; later than each of those, another label
\* applied, the label removed, an event with no label
Events ==
  {Labeled(t) : t \in {LabeledOld, LabeledDue, LabeledYoung}}
    \cup {[event |-> "labeled", label |-> <<[name |-> "bug"]>>,
           created_at |-> DAY_MS - 1],
          [event |-> "unlabeled", label |-> <<[name |-> LABEL_NAME]>>,
           created_at |-> DAY_MS - 1],
          [event |-> "closed", label |-> <<>>, created_at |-> DAY_MS - 1]}

\* against a run at DAY_MS: commented EVERY_DAYS days before, and 1 ms less
RemindedDue == DAY_MS - EVERY_DAYS * DAY_MS

RemindedRecent == DAY_MS - EVERY_DAYS * DAY_MS + 1

CommentOf(user, text, t) == [user |-> user, body |-> text, created_at |-> t]

\* comments: an app's with the marker, at both times; and, at the later
\* time, one with the marker by a user whose login holds "github-actions",
\* by a person, by a deleted user, and an app's without the marker
Comments ==
  LET app == <<[type |-> "Bot", login |-> <<"renovate", "[bot]">>]>>
      fork == <<[type |-> "User", login |-> <<"my-", "github-actions", "-fork">>]>>
      person == <<[type |-> "User", login |-> alice]>>
      reminder == <<MARKER, "\n", "ping">>
  IN  {CommentOf(app, reminder, RemindedDue),
       CommentOf(app, reminder, RemindedRecent),
       CommentOf(fork, reminder, RemindedRecent),
       CommentOf(person, reminder, RemindedRecent),
       CommentOf(<<>>, reminder, RemindedRecent),
       CommentOf(app, <<"ping">>, RemindedRecent)}

\* what the server holds of one issue
CaseOf(isPull, user, pull, events, comments) ==
  [pull_request |-> isPull, user |-> user, pull |-> pull, events |-> events,
   comments |-> comments]

\* an issue that is no pull request
PlainIssue == CaseOf(FALSE, <<[login |-> alice]>>, PlainPull, <<>>, <<>>)

\* the cases of a repository with one open labeled issue: any pull and
\* author; any events; any comments
Cases ==
  {PlainIssue}
    \cup {CaseOf(TRUE, u, p, <<Labeled(LabeledOld)>>, <<>>) :
            u \in IssueUsers, p \in Pulls}
    \cup {CaseOf(TRUE, <<[login |-> alice]>>, PlainPull, evs, <<>>) :
            evs \in SeqsUpTo(Events, MaxEvents)}
    \cup {CaseOf(TRUE, <<[login |-> alice]>>, PlainPull, <<Labeled(LabeledDue)>>, cs) :
            cs \in SeqsUpTo(Comments, MaxComments)}

\* the cases of a repository with several: no pull request, another base,
\* labeled too recently, due
FewCases ==
  {PlainIssue,
   CaseOf(TRUE, <<[login |-> alice]>>, PullOf("develop", <<>>, <<>>),
          <<Labeled(LabeledOld)>>, <<>>),
   CaseOf(TRUE, <<[login |-> alice]>>, PlainPull, <<Labeled(LabeledYoung)>>, <<>>),
   CaseOf(TRUE, <<[login |-> alice]>>, PlainPull, <<Labeled(LabeledOld)>>, <<>>)}

\* the repository whose open labeled issues 1..Len(cs) are the cases cs
RepoOf(cs) ==
  [issues |-> [n \in 1..Len(cs) |->
                 [number |-> n, pull_request |-> cs[n].pull_request,
                  user |-> cs[n].user]],
   pull |-> [n \in 1..Len(cs) |-> cs[n].pull],
   events |-> [n \in 1..Len(cs) |-> cs[n].events],
   comments |-> [n \in 1..Len(cs) |-> cs[n].comments]]

Repos ==
  {RepoOf(cs) : cs \in SeqsUpTo(Cases, 1)}
    \cup {RepoOf(cs) : cs \in SeqsUpTo(FewCases, MaxIssues)}

\* the identity of GITHUB_TOKEN, which authors the comments the script posts
TokenUser == [type |-> "Bot", login |-> <<"github-actions", "[bot]">>]

\* the time between the end of a run (or the start of the model) and the
\* start of the next
RunGaps == {DAY_MS, EVERY_DAYS * DAY_MS}

\* ------------------------------------------------------------ the policy
\* mutant: the label's name is not compared
IsLabeledEventAnyLabel(e) == e.event = "labeled"

\* e.event === "labeled" && e.label?.name === LABEL_NAME
IsLabeledEvent(e) ==
  e.event = "labeled" /\ e.label # <<>> /\ e.label[1].name = LABEL_NAME

\* mutant: the events are sorted oldest first
LabeledCmpAscending(a, b) == a.created_at - b.created_at

\* (a, b) => new Date(b.created_at) - new Date(a.created_at), of the events
LabeledCmp(a, b) == b.created_at - a.created_at

\* events.filter(...).sort(...): a stable insertion by LabeledCmp
SortLabeled(s) ==
  LET sorted[n \in 0..Len(s)] ==
        IF n = 0 THEN <<>>
        ELSE LET t == sorted[n - 1]
                 x == s[n]
             IN  InsertAt(t, x,
                   Cardinality({i \in 1..Len(t) : LabeledCmp(t[i], x) <= 0}))
  IN  sorted[Len(s)]

\* ageDays < AFTER_DAYS
TooYoung(age) == age < AFTER_DAYS

\* mutant: the author is not looked at
IsOurCommentAnyAuthor(c) == Includes(c.body, MARKER)

\* (c.user?.type === "Bot" || c.user?.login?.includes("github-actions"))
\*   && c.body?.includes(MARKER)
IsOurComment(c) ==
  /\ \/ (c.user # <<>> /\ c.user[1].type = "Bot")
     \/ (c.user # <<>> /\ Includes(c.user[1].login, "github-actions"))
  /\ Includes(c.body, MARKER)

\* mutant: the comments are sorted oldest first
CommentCmpAscending(a, b) == a.created_at - b.created_at

\* (a, b) => new Date(b.created_at) - new Date(a.created_at), of the comments
CommentCmp(a, b) == b.created_at - a.created_at

\* comments.filter(...).sort(...): a stable insertion by CommentCmp
SortComments(s) ==
  LET sorted[n \in 0..Len(s)] ==
        IF n = 0 THEN <<>>
        ELSE LET t == sorted[n - 1]
                 x == s[n]
             IN  InsertAt(t, x,
                   Cardinality({i \in 1..Len(t) : CommentCmp(t[i], x) <= 0}))
  IN  sorted[Len(s)]

\* since < EVERY_DAYS
TooRecent(since) == since < EVERY_DAYS

\* issue.user?.login ? `@${issue.user.login}` : ""
AuthorMention(issue) ==
  IF issue.user # <<>> /\ issue.user[1].login # <<>>
  THEN <<"@">> \o issue.user[1].login
  ELSE <<>>

\* [author, ...requestedUsers, ...requestedTeams].filter(Boolean)
MentionsOf(issue, p) ==
  LET requestedUsers ==
        [i \in 1..Len(p.requested_reviewers) |->
           <<"@">> \o p.requested_reviewers[i].login]
      requestedTeams ==
        [i \in 1..Len(p.requested_teams) |->
           <<"@">> \o p.base.repo.owner.login
             \o <<"/", p.requested_teams[i].slug>>]
      IsText(m) == m # <<>>
  IN  SelectSeq(<<AuthorMention(issue)>> \o requestedUsers \o requestedTeams,
                IsText)

RECURSIVE Join(_, _)
\* Array.prototype.join
Join(ms, sep) ==
  IF ms = <<>> THEN <<>>
  ELSE IF Len(ms) = 1 THEN ms[1]
  ELSE ms[1] \o <<sep>> \o Join(Tail(ms), sep)

\* the template of the reminder (its backquotes left out)
BodyOf(ms, age) ==
  <<MARKER, "\n">> \o Join(ms, " ")
    \o <<"\n\nThis pull request targets ", TARGET_BRANCH, " and has the ",
         LABEL_NAME, " label for **", ToString(age), " days**.\n",
         "Please review next steps for backporting.\n\n",
         "- Threshold: ", ToString(AFTER_DAYS), "d\n",
         "- Re-reminder interval: ", ToString(EVERY_DAYS), "d\n">>

\* ------------------------------------------------------------ history
\* the greatest element of a non-empty set of times
Latest(S) == CHOOSE t \in S : \A u \in S : u <= t

\* the times at which the configured label was applied
LabelTimes(evs) ==
  {evs[i].created_at :
     i \in {j \in 1..Len(evs) :
              /\ evs[j].event = "labeled"
              /\ evs[j].label # <<>>
              /\ evs[j].label[1].name = LABEL_NAME}}

\* a comment of an automated identity that carries the marker
IsReminder(c) ==
  /\ c.user # <<>>
  /\ c.user[1].type = "Bot" \/ Includes(c.user[1].login, "github-actions")
  /\ Includes(c.body, MARKER)

ReminderTimes(cs) ==
  {cs[i].created_at : i \in {j \in 1..Len(cs) : IsReminder(cs[j])}}

OptLatest(S) == IF S = {} THEN <<>> ELSE <<Latest(S)>>

\* ------------------------------------------------------------ run
pgVars == <<pgState, pgPage, pgResults, pgWait, feed, okPages, limited>>

\* paginate's frame is gone
PaginateGone ==
  /\ pgState' = "idle"
  /\ pgPage' = 1
  /\ pgResults' = <<>>
  /\ pgWait' = 0
  /\ feed' = <<>>
  /\ okPages' = <<>>
  /\ limited' = FALSE

\* the loop body's locals at the top of an iteration
FreshLocals ==
  /\ pr' = <<>>
  /\ ageDays' = <<>>
  /\ mentions' = <<>>
  /\ body' = <<>>
  /\ latestLabel' = <<>>
  /\ latestReminder' = <<>>

\* the script is started: run() up to its first await
StartRun ==
  /\ pc \in {"idle", "exited"}
  /\ runs < MaxRuns
  /\ runs' = runs + 1
  /\ \E gap \in RunGaps : clock' = clock + gap
  /\ now' = clock'
  /\ exitCode' = <<>>
  /\ todo' = <<>>
  /\ cur' = <<>>
  /\ FreshLocals
  /\ decision' = ""
  /\ lastRes' = NoResponse
  /\ lastReset' = 0
  /\ PaginateCall(PagesOf(repo.issues))
  /\ pc' = "listIssues"
  /\ UNCHANGED <<repo, posted>>

\* const issues = await listOpenIssuesWithLabel(LABEL_NAME)
IssuesListed ==
  /\ pc = "listIssues"
  /\ pgState = "returned"
  /\ todo' = pgResults
  /\ pc' = "loop"
  /\ PaginateGone
  /\ UNCHANGED <<clock, runs, exitCode, now, cur, pr, ageDays, mentions, body,
                 repo, posted, lastRes, lastReset, decision, latestLabel,
                 latestReminder>>

\* the head of the for-of loop, to `continue` or to the call of getPull
NextCandidate ==
  /\ pc = "loop"
  /\ todo # <<>>
  /\ cur' = <<Head(todo)>>
  /\ todo' = Tail(todo)
  /\ FreshLocals
  /\ IF ~Head(todo).pull_request
     THEN decision' = "notpr" /\ pc' = "loop"
     ELSE decision' = "" /\ pc' = "getPull"
  /\ UNCHANGED <<clock, runs, exitCode, now, repo, posted, lastRes, lastReset>>
  /\ UNCHANGED pgVars

\* the base check
WrongBase(p) == p.base.ref # TARGET_BRANCH

\* getPull answers: the base check, then the call of listIssueEvents
GetPullAnswered ==
  /\ pc = "getPull"
  /\ \E res \in {OkResponse(repo.pull[cur[1].number])} \cup RateLimitResponses
                  \cup FailureResponses :
       /\ lastRes' = Seen(res)
       /\ IF ~ResOk(res)
          THEN /\ pc' = "threw"
               /\ UNCHANGED <<pr, decision>>
               /\ UNCHANGED pgVars
          ELSE /\ pr' = <<res.data>>
               /\ IF WrongBase(res.data)
                  THEN /\ decision' = "base"
                       /\ pc' = "loop"
                       /\ UNCHANGED pgVars
                  ELSE /\ decision' = ""
                       /\ pc' = "listEvents"
                       /\ PaginateCall(PagesOf(repo.events[cur[1].number]))
  /\ UNCHANGED <<clock, runs, exitCode, now, todo, cur, ageDays, mentions,
                 body, repo, posted, lastReset, latestLabel, latestReminder>>

\* listIssueEvents returned: the label's age, then the call of listComments
EventsListed ==
  /\ pc = "listEvents"
  /\ pgState = "returned"
  /\ latestLabel' = OptLatest(LabelTimes(pgResults))
  /\ LET labeledEvents == SortLabeled(SelectSeq(pgResults, IsLabeledEvent))
     IN  IF Len(labeledEvents) = 0
         THEN /\ decision' = "nolabel"
              /\ pc' = "loop"
              /\ PaginateGone
              /\ UNCHANGED ageDays
         ELSE LET labeledAt == labeledEvents[1].created_at
                  age == daysBetween(now, labeledAt)
              IN  /\ ageDays' = <<age>>
                  /\ IF TooYoung(age)
                     THEN /\ decision' = "young"
                          /\ pc' = "loop"
                          /\ PaginateGone
                     ELSE /\ decision' = ""
                          /\ pc' = "listComments"
                          /\ PaginateCall(
                               PagesOf(repo.comments[cur[1].number]
                                         \o posted[cur[1].number]))
  /\ UNCHANGED <<clock, runs, exitCode, now, todo, cur, pr, mentions, body,
                 repo, posted, lastRes, lastReset, latestReminder>>

\* listComments returned: the interval check, then the call of createComment
CommentsListed ==
  /\ pc = "listComments"
  /\ pgState = "returned"
  /\ latestReminder' = OptLatest(ReminderTimes(pgResults))
  /\ LET ourRecent == SortComments(SelectSeq(pgResults, IsOurComment))
     IN  IF /\ Len(ourRecent) # 0
            /\ TooRecent(daysBetween(now, ourRecent[1].created_at))
         THEN /\ decision' = "recent"
              /\ pc' = "loop"
              /\ UNCHANGED <<mentions, body>>
         ELSE /\ decision' = "post"
              /\ pc' = "createComment"
              /\ mentions' = MentionsOf(cur[1], pr[1])
              /\ body' = BodyOf(mentions', ageDays[1])
  /\ PaginateGone
  /\ UNCHANGED <<clock, runs, exitCode, now, todo, cur, pr, ageDays, repo,
                 posted, lastRes, lastReset, latestLabel>>

\* the comment the server stores for a POST
Stored(text) == [user |-> <<TokenUser>>, body |-> text, created_at |-> clock]

\* createComment answers
CreateCommentAnswered ==
  /\ pc = "createComment"
  /\ \E res \in {[OkResponse(Stored(body)) EXCEPT !.status = 201]}
                  \cup RateLimitResponses \cup FailureResponses :
       /\ lastRes' = Seen(res)
       /\ IF ~ResOk(res)
          THEN pc' = "threw" /\ UNCHANGED posted
          ELSE /\ posted' = [posted EXCEPT ![cur[1].number] = Append(@, res.data)]
               /\ pc' = "pause"
  /\ UNCHANGED <<clock, runs, exitCode, now, todo, cur, pr, ageDays, mentions,
                 body, repo, lastReset, decision, latestLabel, latestReminder>>
  /\ UNCHANGED pgVars

\* await sleep(200), the end of the loop body
Paused ==
  /\ pc = "pause"
  /\ clock' = After(POST_DELAY_MS)
  /\ pc' = "loop"
  /\ UNCHANGED <<runs, exitCode, now, todo, cur, pr, ageDays, mentions, body,
                 repo, posted, lastRes, lastReset, decision, latestLabel,
                 latestReminder>>
  /\ UNCHANGED pgVars

\* the loop is over: "Done.", and the process ends
RunDone ==
  /\ pc = "loop"
  /\ todo = <<>>
  /\ pc' = "exited"
  /\ exitCode' = <<0>>
  /\ cur' = <<>>
  /\ FreshLocals
  /\ decision' = ""
  /\ UNCHANGED <<clock, runs, now, todo, repo, posted, lastRes, lastReset>>
  /\ UNCHANGED pgVars

\* the status run().catch exits with
ERROR_EXIT == 1

\* run().catch: an error thrown anywhere in run() ends the process
Caught ==
  /\ \/ pc = "threw"
     \/ pc \in {"listIssues", "listEvents", "listComments"} /\ pgState = "threw"
  /\ pc' = "exited"
  /\ exitCode' = <<ERROR_EXIT>>
  /\ PaginateGone
  /\ UNCHANGED <<clock, runs, now, todo, cur, pr, ageDays, mentions, body,
                 repo, posted, lastRes, lastReset, decision, latestLabel,
                 latestReminder>>

Init ==
  /\ InitCommon
  /\ pc = "idle"
  /\ pgState = "idle"
  /\ feed = <<>>
  /\ repo \in Repos

Next ==
  \/ StartRun
  \/ PaginateFetch
  \/ PaginateWake
  \/ IssuesListed
  \/ NextCandidate
  \/ GetPullAnswered
  \/ EventsListed
  \/ CommentsListed
  \/ CreateCommentAnswered
  \/ Paused
  \/ RunDone
  \/ Caught

Spec == Init /\ [][Next]_vars

\* the process always takes its next step: a response arrives for every
\* request, a timer fires, a new run is scheduled
FairSpec == Init /\ [][Next]_vars /\ WF_vars(Next)

\* ------------------------------------------------------------ properties
\* the candidate in the loop body, as the server holds it
CurNumber == cur[1].number

CurIsPull == cur[1].pull_request

CurBaseMatches == repo.pull[CurNumber].base.ref = TARGET_BRANCH

CurLabeled == LabelTimes(repo.events[CurNumber]) # {}

\* a response was received that is neither a success nor the rate-limit signal
FailureSeen ==
  /\ lastRes.status # 0
  /\ lastRes.status \notin 200..299
  /\ ~(lastRes.status = 403 /\ lastRes.remaining = "0")

\* a response was received that is the rate-limit signal
RateLimitSeen == lastRes.status = 403 /\ lastRes.remaining = "0"

\* C1: a candidate whose label was last applied at T is skipped as too young
\* when now - T is less than AFTER_DAYS units, whatever the order of its
\* events; when now - T is AFTER_DAYS units or more it goes on to the comment
\* check, and with no earlier reminder createComment is called.
LabelAgeDecides ==
  latestLabel # <<>> =>
    LET age == now - latestLabel[1]
    IN  /\ age < AFTER_DAYS * DAY_MS => decision = "young" /\ pc = "loop"
        /\ age >= AFTER_DAYS * DAY_MS =>
             /\ decision \in {"", "recent", "post"}
             /\ decision = "" => pc \in {"listComments", "exited"}
             /\ (decision # "" /\ latestReminder = <<>>) =>
                  decision = "post"
             /\ decision = "post" =>
                  pc \in {"createComment", "pause", "loop", "threw", "exited"}

\* C1 witness: createComment is called for a candidate labeled exactly
\* AFTER_DAYS units ago that has two events and no earlier reminder
LabelAgeWitness ==
  /\ pc = "createComment"
  /\ latestLabel # <<>>
  /\ now - latestLabel[1] = AFTER_DAYS * DAY_MS
  /\ latestReminder = <<>>
  /\ Len(repo.events[CurNumber]) = 2

\* C2: a candidate that reached the comment check is skipped exactly when it
\* has an automated marker comment and the latest of those is less than
\* EVERY_DAYS units old; otherwise createComment is called.
ReminderIntervalDecides ==
  /\ decision \in {"recent", "post"} =>
       (decision = "recent" <=>
          /\ latestReminder # <<>>
          /\ now - latestReminder[1] < EVERY_DAYS * DAY_MS)
  /\ decision = "recent" => pc = "loop"
  /\ pc = "createComment" => decision = "post"
  /\ pc = "listComments" => decision = ""

\* C2 witness: createComment is called although an automated marker comment
\* exists, made exactly EVERY_DAYS units ago, beside another comment
ReminderIntervalWitness ==
  /\ pc = "createComment"
  /\ latestReminder # <<>>
  /\ now - latestReminder[1] = EVERY_DAYS * DAY_MS
  /\ Len(repo.comments[CurNumber]) = 2

\* C3: createComment is called only for a pull request whose base is the
\* target branch and that has a labeled event of the configured label; any
\* other candidate is left without a comment and the loop goes on.
OnlyLabeledPullsOnTarget ==
  cur # <<>> =>
    LET eligible == CurIsPull /\ CurBaseMatches /\ CurLabeled
    IN  /\ (decision = "post" \/ pc \in {"listComments", "createComment", "pause"})
             => eligible
        /\ ~eligible =>
             /\ decision \in {"", "notpr", "base", "nolabel"}
             /\ decision = "" => pc \in {"getPull", "listEvents", "threw", "exited"}
             /\ decision # "" => pc = "loop"

\* C3 witness: the second candidate is skipped for its base after the first
\* got its reminder
OnlyLabeledPullsWitness ==
  /\ decision = "base"
  /\ pc = "loop"
  /\ CurNumber = 2
  /\ posted[1] # <<>>

\* C4: no two comments the script posted on one pull request are less than
\* EVERY_DAYS units apart.
NoReminderWithinInterval ==
  \A n \in IssueNumbers :
    \A i, j \in 1..Len(posted[n]) :
      i < j =>
        posted[n][j].created_at - posted[n][i].created_at
          >= EVERY_DAYS * DAY_MS

\* C4 witness: the second run reminded again
NoReminderWithinIntervalWitness ==
  /\ runs = 2
  /\ \E n \in IssueNumbers : Len(posted[n]) = 2

\* the first page that is not full
FirstShort ==
  CHOOSE k \in 1..(Len(feed) + 1) :
    /\ ~(ServerPage(k).array /\ Len(ServerPage(k).items) >= PER_PAGE)
    /\ \A p \in 1..(k - 1) :
         ServerPage(p).array /\ Len(ServerPage(p).items) >= PER_PAGE

\* the pages up to the first that is not full, one after the other
ExpectedResults == Flatten([p \in 1..FirstShort |-> ServerPage(p).items])

\* C5: with every response a success, paginate asks for pages 1, 2, ... in
\* order, stops at the first page with fewer than PER_PAGE items and returns
\* the pages up to it, in order.
PaginateConcatenates ==
  (pc = "harness" /\ ~limited) =>
    /\ okPages = [i \in 1..Len(okPages) |-> i]
    /\ pgState = "fetch" => pgPage = Len(okPages) + 1
    /\ (pgState = "returned" /\ ServerPage(FirstShort).array) =>
         /\ okPages = [i \in 1..FirstShort |-> i]
         /\ pgResults = ExpectedResults

\* C5 witness: pages of 100, 100 and 50 items gave 250 items in three requests
PaginateConcatenatesWitness ==
  /\ pgState = "returned"
  /\ ~limited
  /\ okPages = <<1, 2, 3>>
  /\ Len(pgResults) = 2 * PER_PAGE + PER_PAGE \div 2

\* C6: a rate-limit response leaves the page number and the results as they
\* were; the sleep ends no earlier than the reset time plus the margin, with
\* the same page to request; and what paginate returns is what it returns
\* with no rate limiting.
RateLimitRetriesSamePage ==
  /\ []((pc = "harness" /\ pgState = "returned" /\ ServerPage(FirstShort).array)
          => pgResults = ExpectedResults)
  /\ [][(pgState = "fetch" /\ pgState' = "sleep") =>
          (pgPage' = pgPage /\ pgResults' = pgResults /\ okPages' = okPages)]_vars
  /\ [][(pgState = "sleep" /\ pgState' # "sleep") =>
          /\ pgState' = "fetch"
          /\ pgPage' = pgPage
          /\ pgResults' = pgResults
          /\ clock' >= Min(lastReset * 1000 + RATE_LIMIT_MARGIN_MS, Horizon)]_vars

\* C6 witness: 250 items were returned after a rate-limit response whose
\* reset time was ahead, the clock standing at that time plus the margin
RateLimitRetriesWitness ==
  /\ pgState = "returned"
  /\ limited
  /\ Len(pgResults) = 2 * PER_PAGE + PER_PAGE \div 2
  /\ lastReset > 0
  /\ clock = lastReset * 1000 + RATE_LIMIT_MARGIN_MS
  /\ clock < Horizon

\* C7: a rate-limit response never makes the run throw or exit with status 1.
RateLimitNeverSurfaced ==
  RateLimitSeen => pc # "threw" /\ ~(pc = "exited" /\ exitCode = <<1>>)

\* C8: after a response that is neither a success nor the rate-limit signal
\* the run has thrown; nothing is requested or posted any more; the process
\* exits with status 1.
FailureIsFatal ==
  /\ [](FailureSeen =>
          \/ (pc = "threw" \/ pgState = "threw") /\ exitCode = <<>>
          \/ pc = "exited" /\ exitCode = <<1>>)
  /\ [][(FailureSeen /\ runs' = runs) =>
          (posted' = posted /\ lastRes' = lastRes /\ todo' = todo
             /\ pc' = "exited")]_vars

\* C8 witness: the process exited with status 1 on a failure, a candidate
\* still waiting
FailureIsFatalWitness ==
  /\ FailureSeen
  /\ pc = "exited"
  /\ exitCode = <<1>>
  /\ todo # <<>>

\* C9: no mention occurs twice in the mention list of a reminder.
MentionsUnique ==
  pc = "createComment" =>
    \A i, j \in 1..Len(mentions) : i # j => mentions[i] # mentions[j]

\* a run is under way
Running == pc \notin {"idle", "exited", "harness"}

\* C10 as stated: every run that starts ends.
RunTerminates == Running ~> (pc = "exited")

\* C10 amended: if from some time on no list page is answered with the
\* rate-limit signal, every run that starts ends, with status 0, or with
\* status 1 after a response that was not a success.
RunTerminatesUnlessLimitedForever ==
  (<>[]~(pgState = "sleep" /\ RateLimitSeen)) =>
    /\ Running ~> (pc = "exited" /\ exitCode \in {<<0>>, <<1>>})
    /\ [](pc = "exited" =>
            (exitCode = <<1>> <=> (lastRes.status # 0 /\ lastRes.status \notin 200..299)))

\* C10 witness: a run ended normally after a rate-limit response whose reset
\* time was ahead
RunTerminatesWitness ==
  /\ pc = "exited"
  /\ exitCode = <<0>>
  /\ lastReset > 0

====
